---- MODULE Spec2Model ----
(***************************************************************************)
(* Model of the Greek sites monitor: the server's store and scheduler      *)
(* (server/server.js) and the monitoring loop of the client and of the     *)
(* standalone monitor (client/monitor-client.js, monitor.js).              *)
(*                                                                         *)
(* Time is counted in minutes, the unit of the two SQL intervals.          *)
(***************************************************************************)
EXTENDS Integers, Sequences, FiniteSets, TLC

\* ------------------------------------------------------------ bounds
MaxTime == 6        \* the clock runs 0..MaxTime
MaxRows == 2        \* rows of site_status
MaxBatchLen == 2    \* results in one POST /api/status
MaxSites == 2       \* sites in one POST /api/sites
MaxStamp == 2       \* client timestamps 1..MaxStamp
MaxClientTime == 13 \* the monitor's clock runs 0..MaxClientTime
MaxAuthTime == 1    \* the clock of the authenticated requests runs 0..MaxAuthTime

\* ------------------------------------------------------------ constants
Names == {"gov.gr", "gsis"}
DefaultBatchSize == 5
Tdown == 1
Tup == 5
NULL == -1
UniqueViolationCode == "SQLITE_CONSTRAINT_UNIQUE"
Procs == {"p1", "p2"}
Timeout == 1
Interval == 6
NumBatches == 11
BatchSizes == {1, DefaultBatchSize}
ClientBatchSize == 5
Timestamps == 1..MaxStamp
Usernames == {"alice", "bob"}
Keys == {"k1", "k2"}
NoKey == "none"

VARIABLES
  now,              \* the database clock (CURRENT_TIMESTAMP, datetime('now'))
  batchSize,        \* this.batchSize
  monitored_sites,  \* table monitored_sites: site_name -> [is_active, last_checked]
  site_status,      \* table site_status, in id order
  statusFile,       \* public/latest-status.json
  publicDir,        \* whether the directory of latest-status.json exists
  lastOp,           \* the operation that ran last
  response,         \* its HTTP status
  body,             \* its return value; of POST /api/status, the number of results
                    \* posted and the place of the first that cannot be inserted
  pc,               \* per process sharing the database: its place in getNextSiteBatch
  sel,              \* per process: the rows its getSiteBatchStmt returned
  ctime,            \* the monitor's clock, in units of the probe timeout (10 s)
  loop,             \* startScheduledMonitoring: "off", "initial" run, or timer "armed"
  nextFire,         \* when the setInterval callback runs next
  cycles,           \* the runMonitoringCycle calls that have not finished
  users,            \* table users: username -> [api_key, is_active, last_active]
  apiKey,           \* the X-API-Key header of the request that ran last
  probe,            \* the last call of checkSite: its arguments and its promise
  thisSites,        \* the client's this.sites: its site names, in order
  proc,             \* the monitor's process: running or exited, whether its signal
                    \* handlers are registered, whether its database is open
  cyc               \* the client's runMonitoringCycle: where it stands, the index i of
                    \* checkAllSites, the promises of the batch, allResults, whether it
                    \* has posted, and how it ended

dbVars == <<now, batchSize, monitored_sites, site_status, statusFile, publicDir>>
httpVars == <<lastOp, response, body>>
pullVars == <<pc, sel>>
loopVars == <<ctime, loop, nextFire, cycles>>
authVars == <<users, apiKey>>
clientVars == <<probe, thisSites, cyc>>
vars == <<now, batchSize, monitored_sites, site_status, statusFile, publicDir,
          lastOp, response, body, pc, sel, ctime, loop, nextFire, cycles,
          users, apiKey, probe, thisSites, cyc, proc>>

\* ------------------------------------------------------------ helpers
Min2(a, b) == IF a <= b THEN a ELSE b

Range(q) == {q[i] : i \in 1..Len(q)}

Injective(q) == \A i, j \in 1..Len(q) : q[i] = q[j] => i = j

SeqsUpTo(S, n) == UNION {[1..k -> S] : k \in 1..n}

\* SQL comparison a < b: unknown (not true) when either side is NULL
SqlLess(a, b) == a # NULL /\ b # NULL /\ a < b

\* ------------------------------------------------------------ SQL statements
\* SELECT MAX(id) FROM site_status GROUP BY site_name
MaxIds(ss) ==
  {i \in 1..Len(ss) : \A j \in 1..Len(ss) : ss[j].site_name = ss[i].site_name => j <= i}

\* WITH DownSites AS (... id IN (SELECT MAX(id) ... GROUP BY site_name) AND is_up = 0)
DownSites(ss) == {ss[i].site_name : i \in {j \in MaxIds(ss) : ss[j].is_up = 0}}

\* faulty variant: the WHERE clause without ms.is_active = 1
BatchWhere_AnyActivity(ms, ss, t, n) ==
  \/ (n \in DownSites(ss) /\ SqlLess(ms[n].last_checked, t - Tdown))
  \/ (n \notin DownSites(ss)
      /\ (ms[n].last_checked = NULL \/ SqlLess(ms[n].last_checked, t - Tup)))

\* faulty variant: the WHERE clause without its conditions on last_checked
BatchWhere_NoLease(ms, ss, t, n) == ms[n].is_active = 1

\* WHERE clause of getSiteBatchStmt
BatchWhere(ms, ss, t, n) ==
  /\ ms[n].is_active = 1
  /\ \/ (n \in DownSites(ss) /\ SqlLess(ms[n].last_checked, t - Tdown))
     \/ (n \notin DownSites(ss)
         /\ (ms[n].last_checked = NULL \/ SqlLess(ms[n].last_checked, t - Tup)))

\* faulty variant: the count query without the DownSites branch
CountWhere_RoutineOnly(ms, ss, t, n) ==
  /\ ms[n].is_active = 1
  /\ n \notin DownSites(ss)
  /\ (ms[n].last_checked = NULL \/ SqlLess(ms[n].last_checked, t - Tup))

\* WHERE clause of checkNeedsSitesStmt
CountWhere(ms, ss, t, n) ==
  /\ ms[n].is_active = 1
  /\ \/ (n \in DownSites(ss) /\ SqlLess(ms[n].last_checked, t - Tdown))
     \/ (n \notin DownSites(ss)
         /\ (ms[n].last_checked = NULL \/ SqlLess(ms[n].last_checked, t - Tup)))

checkNeedsSitesStmt(ms, ss, t) ==
  Cardinality({n \in DOMAIN ms : CountWhere(ms, ss, t, n)})

\* faulty variant: the ORDER BY without its CASE term
TierKey_Flat(ss, n) == 2

\* ORDER BY CASE WHEN ds.site_name IS NOT NULL THEN 1 ELSE 2 END, ms.last_checked ASC
TierKey(ss, n) == IF n \in DownSites(ss) THEN 1 ELSE 2

\* faulty variant: ORDER BY ... ms.last_checked DESC
LastCheckedLE_Desc(a, b) == b = NULL \/ (a # NULL /\ b <= a)

\* NULL sorts first in ascending order
LastCheckedLE(a, b) == a = NULL \/ (b # NULL /\ a <= b)

OrderLE(ms, ss, a, b) ==
  \/ TierKey(ss, a) < TierKey(ss, b)
  \/ (TierKey(ss, a) = TierKey(ss, b)
      /\ LastCheckedLE(ms[a].last_checked, ms[b].last_checked))

\* every row order the ORDER BY allows (rows with equal keys come in any order)
Ordered(ms, ss, S) ==
  {q \in [1..Cardinality(S) -> S] :
     /\ Injective(q)
     /\ \A i, j \in 1..Len(q) : i < j => OrderLE(ms, ss, q[i], q[j])}

\* getSiteBatchStmt.all(limit): the results the statement can return
getSiteBatchStmt(ms, ss, t, limit) ==
  LET due == {n \in DOMAIN ms : BatchWhere(ms, ss, t, n)}
  IN  {SubSeq(q, 1, Min2(limit, Len(q))) : q \in Ordered(ms, ss, due)}

\* faulty variant: the UPDATE also clears is_active
updateSiteLastCheckedStmt_Deactivate(ms, t, n) ==
  [ms EXCEPT ![n].last_checked = t, ![n].is_active = 0]

\* faulty variant: the UPDATE is lost
updateSiteLastCheckedStmt_Lost(ms, t, n) == ms

\* faulty variant: the UPDATE without its WHERE clause
updateSiteLastCheckedStmt_NoWhere(ms, t, n) ==
  [m \in DOMAIN ms |-> [ms[m] EXCEPT !.last_checked = t]]

\* UPDATE monitored_sites SET last_checked = CURRENT_TIMESTAMP WHERE site_name = ?
updateSiteLastCheckedStmt(ms, t, n) ==
  [ms EXCEPT ![n].last_checked = t]

\* the transaction of getNextSiteBatch: the UPDATE run for every site of the batch
RECURSIVE StampAll(_, _, _, _)
StampAll(ms, t, sites, i) ==
  IF i > Len(sites)
    THEN ms
    ELSE StampAll(updateSiteLastCheckedStmt(ms, t, sites[i]), t, sites, i + 1)

\* getLatestStmt.all() mapped by getLatestStatus: rows with MAX(id) per site_name
getLatestStatus(ss) ==
  {[site_name |-> ss[i].site_name, is_up |-> (ss[i].is_up = 1),
    timestamp |-> ss[i].timestamp, id |-> i] : i \in MaxIds(ss)}

\* addSiteStmt.run(site_name, ...): site_name is UNIQUE NOT NULL. better-sqlite3
\* throws a SqliteError whose code is SQLite's extended result code, which for a
\* violated UNIQUE constraint is SQLITE_CONSTRAINT_UNIQUE
addSiteStmt(ms, n) ==
  IF n \in DOMAIN ms
    THEN [ok |-> FALSE, code |-> UniqueViolationCode, ms |-> ms]
    ELSE [ok |-> TRUE, code |-> "",
          ms |-> [m \in DOMAIN ms \cup {n} |->
                    IF m = n THEN [is_active |-> 1, last_checked |-> NULL] ELSE ms[m]]]

\* the loop of addSites: try { run; push } catch { rethrow unless SQLITE_CONSTRAINT }
RECURSIVE AddLoop(_, _, _, _)
AddLoop(ms, sites, i, added) ==
  IF i > Len(sites)
    THEN [thrown |-> FALSE, ms |-> ms, added |-> added]
    ELSE LET r == addSiteStmt(ms, sites[i])
         IN  IF r.ok
               THEN AddLoop(r.ms, sites, i + 1, Append(added, sites[i]))
               ELSE IF r.code # "SQLITE_CONSTRAINT"
                      THEN [thrown |-> TRUE, ms |-> ms, added |-> added]
                      ELSE AddLoop(ms, sites, i + 1, added)

\* addSites(sites, userId): the loop inside db.transaction, rolled back when it throws
addSites(ms, sites) ==
  LET r == AddLoop(ms, sites, 1, << >>)
  IN  [thrown |-> r.thrown, ms |-> IF r.thrown THEN ms ELSE r.ms, added |-> r.added]

\* faulty variant: INSERT OR REPLACE keyed by site_name
insertStmt_Replace(ss, status) ==
  IF status.bindable
    THEN [ok |-> TRUE,
          ss |-> Append(SelectSeq(ss, LAMBDA row : row.site_name # status.site_name),
                        [site_name |-> status.site_name, is_up |-> status.is_up,
                         timestamp |-> status.timestamp])]
    ELSE [ok |-> FALSE, ss |-> ss]

\* insertStmt.run(...): throws when a value cannot be bound
insertStmt(ss, status) ==
  IF status.bindable
    THEN [ok |-> TRUE,
          ss |-> Append(ss, [site_name |-> status.site_name, is_up |-> status.is_up,
                             timestamp |-> status.timestamp])]
    ELSE [ok |-> FALSE, ss |-> ss]

RECURSIVE InsertLoop(_, _, _)
InsertLoop(ss, results, i) ==
  IF i > Len(results)
    THEN [thrown |-> FALSE, ss |-> ss]
    ELSE LET r == insertStmt(ss, results[i])
         IN  IF r.ok THEN InsertLoop(r.ss, results, i + 1)
                     ELSE [thrown |-> TRUE, ss |-> r.ss]

\* faulty variant: the inserts run outside a transaction
saveTransaction_NoRollback(ss, results) == InsertLoop(ss, results, 1)

\* the transaction of saveResults: committed whole, or rolled back when it throws
saveTransaction(ss, results) ==
  LET r == InsertLoop(ss, results, 1)
  IN  [thrown |-> r.thrown, ss |-> IF r.thrown THEN ss ELSE r.ss]

\* updateStatusFile(results): the document written to latest-status.json
updateStatusFile(results) ==
  [i \in 1..Len(results) |->
     [name |-> results[i].site_name, isUp |-> (results[i].is_up = 1),
      lastChecked |-> results[i].timestamp]]

\* the results a caller can post
ResultInputs ==
  [site_name : Names, is_up : {0, 1}, timestamp : Timestamps, bindable : BOOLEAN]

\* the results of probes that all bind and carry one timestamp: the scheduler
\* reads neither the timestamp of a row nor a rejected request
ProbeResults ==
  [site_name : Names, is_up : {0, 1}, timestamp : {1}, bindable : {TRUE}]

\* the place of the first result of a request that cannot be inserted, 0 if none
FirstRejected(results) ==
  LET bad == {i \in 1..Len(results) : ~results[i].bindable}
  IN  IF bad = {} THEN 0 ELSE CHOOSE i \in bad : \A j \in bad : i <= j

\* the requests of at most n results that site_status has room for
Requests(inputs, n) == SeqsUpTo(inputs, Min2(n, MaxRows - Len(site_status)))

\* ------------------------------------------------------------ initial state
\* no runMonitoringCycle has been called
NoCycle ==
  [pc |-> "idle", i |-> 0, inflight |-> << >>, allResults |-> << >>,
   posted |-> FALSE, threw |-> FALSE, outcome |-> "none"]

\* the site list of the client as shipped
ShippedSites == <<"gov.gr", "gsis">>

\* the state after construction, whatever this.sites holds
InitExceptSites ==
  /\ now = 0
  /\ batchSize \in BatchSizes
  /\ monitored_sites = [n \in {} |-> 0]
  /\ site_status = << >>
  /\ statusFile = << >>
  /\ publicDir \in BOOLEAN
  /\ lastOp = "init"
  /\ response = 0
  /\ body = << >>
  /\ pc = [p \in Procs |-> "idle"]
  /\ sel = [p \in Procs |-> << >>]
  /\ ctime = 0
  /\ loop = "off"
  /\ nextFire = 0
  /\ cycles = << >>
  /\ users = [u \in {} |-> 0]
  /\ apiKey = NoKey
  /\ probe = [called |-> FALSE]
  /\ cyc = NoCycle
  /\ proc = [state |-> "running", handlers |-> FALSE, dbOpen |-> TRUE, signal |-> "none"]

Init == InitExceptSites /\ thisSites = ShippedSites

\* ------------------------------------------------------------ actions
Tick ==
  /\ now < MaxTime
  /\ now' = now + 1
  /\ lastOp' = "tick"
  /\ response' = 0
  /\ body' = << >>
  /\ UNCHANGED <<batchSize, monitored_sites, site_status, statusFile, publicDir, pullVars, loopVars, authVars, clientVars, proc>>

\* GET /api/sites/batch -> getNextSiteBatch(), run by the single server process
GetNextSiteBatch ==
  /\ lastOp' = "batch"
  /\ response' = 200
  /\ IF checkNeedsSitesStmt(monitored_sites, site_status, now) = 0
       THEN /\ body' = << >>
            /\ UNCHANGED monitored_sites
       ELSE \E sites \in getSiteBatchStmt(monitored_sites, site_status, now, batchSize) :
              /\ monitored_sites' = StampAll(monitored_sites, now, sites, 1)
              /\ body' = sites
  /\ UNCHANGED <<now, batchSize, site_status, statusFile, publicDir, pullVars, loopVars>>

\* POST /api/sites -> addSites(sites, userId)
AddSites(sites) ==
  LET r == addSites(monitored_sites, sites)
  IN  /\ lastOp' = "add"
      /\ monitored_sites' = r.ms
      /\ IF r.thrown
            THEN response' = 500 /\ body' = << >>
            ELSE response' = 201 /\ body' = r.added
      /\ UNCHANGED <<now, batchSize, site_status, statusFile, publicDir, pullVars, loopVars>>

\* a site is deactivated (is_active set to 0)
Deactivate(n) ==
  /\ n \in DOMAIN monitored_sites
  /\ monitored_sites[n].is_active = 1
  /\ monitored_sites' = [monitored_sites EXCEPT ![n].is_active = 0]
  /\ lastOp' = "deactivate"
  /\ response' = 0
  /\ body' = << >>
  /\ UNCHANGED <<now, batchSize, site_status, statusFile, publicDir, pullVars, loopVars,
                 authVars, clientVars, proc>>

\* POST /api/status -> saveResults(results, userId); writeFileSync throws when the
\* directory of public/latest-status.json is missing
SaveResults(results) ==
  LET r == saveTransaction(site_status, results)
  IN  /\ Len(site_status) + Len(results) <= MaxRows
      /\ lastOp' = "save"
      /\ body' = [count |-> Len(results),
                  rejected |-> FirstRejected(results)]
      /\ site_status' = r.ss
      /\ IF r.thrown
            THEN response' = 500 /\ UNCHANGED statusFile
            ELSE IF publicDir
                   THEN response' = 200 /\ statusFile' = updateStatusFile(results)
                   ELSE response' = 500 /\ UNCHANGED statusFile
      /\ UNCHANGED <<now, batchSize, monitored_sites, publicDir, pullVars, loopVars>>

\* GET /api/status -> getLatestStatus()
GetStatus ==
  /\ lastOp' = "status"
  /\ response' = 200
  /\ body' = getLatestStatus(site_status)
  /\ UNCHANGED <<dbVars, pullVars, loopVars>>

\* the handlers behind authenticateApiKey, entered by requests that passed it; the
\* users table is outside this specification
Next ==
  \/ Tick
  \/ GetNextSiteBatch /\ UNCHANGED <<authVars, clientVars, proc>>
  \/ \E sites \in SeqsUpTo(Names, 1) : AddSites(sites) /\ UNCHANGED <<authVars, clientVars, proc>>
  \/ \E n \in Names : Deactivate(n)
  \/ \E results \in Requests(ProbeResults, 1) :
       SaveResults(results) /\ UNCHANGED <<authVars, clientVars, proc>>
  \/ GetStatus /\ UNCHANGED <<authVars, clientVars, proc>>

\* the clock value at which a stamp no greater than the number of sites is more
\* than Tup old
Window == Tup + Cardinality(Names)

\* the number of different stamps older than the stamp of s
Rank(ms, s) ==
  Cardinality({ms[t].last_checked :
                 t \in {u \in DOMAIN ms : /\ ms[u].last_checked # NULL
                                          /\ ms[u].last_checked < ms[s].last_checked}})

\* time passes without end: CURRENT_TIMESTAMP and datetime('now', ...) move on. Past
\* Window the clock stands and the stamps move back instead, none below its rank:
\* the order of the stamps and their ages up to Tup are kept, and the queries read
\* nothing else of them (last_checked < now - Tdown, < now - Tup, ORDER BY)
Elapse ==
  /\ lastOp' = "tick"
  /\ response' = 0
  /\ body' = << >>
  /\ IF now < Window
       THEN now' = now + 1 /\ UNCHANGED monitored_sites
       ELSE /\ now' = now
            /\ monitored_sites' =
                 [s \in DOMAIN monitored_sites |->
                    [monitored_sites[s] EXCEPT
                       !.last_checked =
                          IF @ = NULL THEN NULL
                          ELSE IF @ - 1 >= Rank(monitored_sites, s)
                                 THEN @ - 1
                                 ELSE Rank(monitored_sites, s)]]
  /\ UNCHANGED <<batchSize, site_status, statusFile, publicDir, pullVars, loopVars,
                 authVars, clientVars, proc>>

\* GET /api/sites/batch, asked by a client that polls
Poll == GetNextSiteBatch /\ UNCHANGED <<authVars, clientVars, proc>>

\* the scheduler polled for ever: sites are registered, results are pushed, time
\* passes and batches are pulled
PollNext ==
  \/ Elapse
  \/ Poll
  \/ \E sites \in SeqsUpTo(Names, 1) :
       AddSites(sites) /\ UNCHANGED <<authVars, clientVars, proc>>
  \/ \E results \in Requests(ProbeResults, 1) :
       SaveResults(results) /\ UNCHANGED <<authVars, clientVars, proc>>

PollSpec == Init /\ [][PollNext]_vars

\* time does pass and the client does poll
PollFairSpec == PollSpec /\ WF_vars(Elapse) /\ WF_vars(Poll)

\* the store alone: requests of any shape, no clock and no scheduler
StoreNext ==
  \/ \E sites \in SeqsUpTo(Names, MaxSites) : AddSites(sites) /\ UNCHANGED <<authVars, clientVars, proc>>
  \/ \E results \in Requests(ResultInputs, MaxBatchLen) :
       SaveResults(results) /\ UNCHANGED <<authVars, clientVars, proc>>
  \/ GetStatus /\ UNCHANGED <<authVars, clientVars, proc>>

StoreSpec == Init /\ [][StoreNext]_vars

\* the store and the scheduler: every operation that reads or writes the tables
HistoryNext ==
  \/ StoreNext
  \/ GetNextSiteBatch /\ UNCHANGED <<authVars, clientVars, proc>>

HistorySpec == Init /\ [][HistoryNext]_vars

\* ------------------------------------------------------------ two processes, one database
\* getNextSiteBatch run by a process p that shares the database file with another:
\* each statement is one step, and the other process may run between two of them.

\* const needsCheck = this.checkNeedsSitesStmt.get(); if (count === 0) return []
PullCount(p) ==
  /\ pc[p] = "idle"
  /\ IF checkNeedsSitesStmt(monitored_sites, site_status, now) = 0
       THEN /\ lastOp' = "batch" /\ response' = 200 /\ body' = << >>
            /\ UNCHANGED pc
       ELSE /\ pc' = [pc EXCEPT ![p] = "counted"]
            /\ UNCHANGED httpVars
  /\ UNCHANGED <<dbVars, sel, loopVars, authVars, clientVars, proc>>

\* const sites = this.getSiteBatchStmt.all(this.batchSize)
PullSelect(p) ==
  /\ pc[p] = "counted"
  /\ \E sites \in getSiteBatchStmt(monitored_sites, site_status, now, batchSize) :
       sel' = [sel EXCEPT ![p] = sites]
  /\ pc' = [pc EXCEPT ![p] = "selected"]
  /\ UNCHANGED <<dbVars, httpVars, loopVars, authVars, clientVars, proc>>

\* transaction(sites); return sites
PullStamp(p) ==
  /\ pc[p] = "selected"
  /\ monitored_sites' = StampAll(monitored_sites, now, sel[p], 1)
  /\ lastOp' = "batch"
  /\ response' = 200
  /\ body' = sel[p]
  /\ pc' = [pc EXCEPT ![p] = "idle"]
  /\ sel' = [sel EXCEPT ![p] = << >>]
  /\ UNCHANGED <<now, batchSize, site_status, statusFile, publicDir, loopVars, authVars, clientVars, proc>>

RaceNext ==
  \/ Tick
  \/ \E sites \in SeqsUpTo(Names, 1) : AddSites(sites) /\ UNCHANGED <<authVars, clientVars, proc>>
  \/ \E p \in Procs : PullCount(p)
  \/ \E p \in Procs : PullSelect(p)
  \/ \E p \in Procs : PullStamp(p)

RaceSpec == Init /\ [][RaceNext]_vars

\* ------------------------------------------------------------ the monitoring loop
\* startScheduledMonitoring and runMonitoringCycle of the standalone monitor: a cycle
\* probes NumBatches batches one after the other, each batch settling within Timeout.

\* runMonitoringCycle() is called: checkAllSites starts the probes of the first batch
NewCycle == [batch |-> 1, started |-> ctime]

RemoveAt(q, i) == [j \in 1..(Len(q) - 1) |-> IF j < i THEN q[j] ELSE q[j + 1]]

\* await this.runMonitoringCycle() (the initial run)
StartScheduledMonitoring ==
  /\ loop = "off"
  /\ loop' = "initial"
  /\ cycles' = Append(cycles, NewCycle)
  /\ UNCHANGED <<ctime, nextFire, dbVars, httpVars, pullVars, authVars, clientVars>>

\* Promise.allSettled(promises) of the batch in flight of cycle i resolves: the next
\* batch starts, or the cycle finishes; after the initial run setInterval is called
BatchSettles(i) ==
  /\ i \in 1..Len(cycles)
  /\ IF cycles[i].batch < NumBatches
       THEN /\ cycles' = [cycles EXCEPT ![i] = [batch |-> cycles[i].batch + 1,
                                                 started |-> ctime]]
            /\ UNCHANGED <<loop, nextFire>>
       ELSE /\ cycles' = RemoveAt(cycles, i)
            /\ IF loop = "initial"
                  THEN loop' = "armed" /\ nextFire' = ctime + Interval
                  ELSE UNCHANGED <<loop, nextFire>>
  /\ UNCHANGED <<ctime, dbVars, httpVars, pullVars, authVars, clientVars>>

\* the setInterval callback: async () => { await this.runMonitoringCycle(); }
TimerFires ==
  /\ loop = "armed"
  /\ ctime = nextFire
  /\ cycles' = Append(cycles, NewCycle)
  /\ nextFire' = nextFire + Interval
  /\ UNCHANGED <<ctime, loop, dbVars, httpVars, pullVars, authVars, clientVars>>

\* time passes: no due callback is skipped, no probe outlives its timeout
ClientTick ==
  /\ ctime < MaxClientTime
  /\ ~(loop = "armed" /\ nextFire = ctime)
  /\ \A i \in 1..Len(cycles) : cycles[i].started + Timeout > ctime
  /\ ctime' = ctime + 1
  /\ UNCHANGED <<loop, nextFire, cycles, dbVars, httpVars, pullVars, authVars, clientVars>>

CycleNext ==
  \/ StartScheduledMonitoring /\ UNCHANGED proc
  \/ \E i \in 1..Len(cycles) : BatchSettles(i) /\ UNCHANGED proc
  \/ TimerFires /\ UNCHANGED proc
  \/ ClientTick /\ UNCHANGED proc

CycleSpec == Init /\ [][CycleNext]_vars

\* ------------------------------------------------------------ authentication
\* the requests as they arrive: authenticateApiKey runs in front of each handler

Endpoints == {"save", "status", "batch", "add"}

\* lastOp of a request that authenticateApiKey answered itself
Rejected == [op \in Endpoints |-> op \o " 401"]

\* faulty variant: the SELECT without AND is_active = 1
findUserByApiKey_AnyActivity(us, key) ==
  {u \in DOMAIN us : us[u].api_key = key}

\* SELECT * FROM users WHERE api_key = ? AND is_active = 1
findUserByApiKey(us, key) ==
  {u \in DOMAIN us : us[u].api_key = key /\ us[u].is_active = 1}

\* UPDATE users SET last_active = CURRENT_TIMESTAMP WHERE id = ?
updateUserLastActive(us, u, t) == [us EXCEPT ![u].last_active = t]

\* return res.status(401).json({ error: ... })
Reject(op, key, msg) ==
  /\ lastOp' = Rejected[op]
  /\ response' = 401
  /\ body' = [error |-> msg]
  /\ apiKey' = key
  /\ UNCHANGED <<dbVars, pullVars, loopVars, users, clientVars, proc>>

\* authenticateApiKey(req, res, next) in front of the handler next of endpoint op
authenticateApiKey(op, key, next) ==
  IF key = NoKey
    THEN Reject(op, key, "API key is required")
    ELSE IF findUserByApiKey(users, key) = {}
           THEN Reject(op, key, "Invalid API key")
           ELSE \E u \in findUserByApiKey(users, key) :
                  /\ users' = updateUserLastActive(users, u, now)
                  /\ apiKey' = key
                  /\ next
                  /\ UNCHANGED <<clientVars, proc>>

PostStatus(key, results) == authenticateApiKey("save", key, SaveResults(results))

GetApiStatus(key) == authenticateApiKey("status", key, GetStatus)

GetSitesBatch(key) == authenticateApiKey("batch", key, GetNextSiteBatch)

PostSites(key, sites) == authenticateApiKey("add", key, AddSites(sites))

\* createUser.run(username, apiKey): username and api_key are UNIQUE NOT NULL
createUser(us, username, key) ==
  IF username \in DOMAIN us \/ \E u \in DOMAIN us : us[u].api_key = key
    THEN [ok |-> FALSE, code |-> UniqueViolationCode, us |-> us]
    ELSE [ok |-> TRUE, code |-> "",
          us |-> [u \in DOMAIN us \cup {username} |->
                    IF u = username
                      THEN [api_key |-> key, is_active |-> 1, last_active |-> NULL]
                      ELSE us[u]]]

\* POST /api/users (not authenticated); generateApiKey() draws the key
PostUsers(username) ==
  /\ lastOp' = "user"
  /\ apiKey' = NoKey
  /\ IF username = ""
       THEN response' = 400 /\ body' = [error |-> "Username is required"]
            /\ UNCHANGED users
       ELSE \E key \in Keys :
              LET r == createUser(users, username, key)
              IN  /\ users' = r.us
                  /\ IF r.ok
                        THEN response' = 201
                             /\ body' = [username |-> username, apiKey |-> key]
                        ELSE IF r.code = "SQLITE_CONSTRAINT"
                               THEN response' = 400
                                    /\ body' = [error |-> "Username already exists"]
                               ELSE response' = 500
                                    /\ body' = [error |-> "Error creating user"]
  /\ UNCHANGED <<dbVars, pullVars, loopVars, clientVars, proc>>

\* a principal is deactivated (is_active set to 0)
DeactivateUser(u) ==
  /\ u \in DOMAIN users
  /\ users[u].is_active = 1
  /\ users' = [users EXCEPT ![u].is_active = 0]
  /\ lastOp' = "deactivate user"
  /\ response' = 0
  /\ body' = << >>
  /\ UNCHANGED <<dbVars, pullVars, loopVars, apiKey, clientVars, proc>>

\* the payloads of the requests: authenticateApiKey reads the header alone, so one
\* site and its probe results stand for every payload
AuthSites == {"gov.gr"}

AuthResults == {r \in ProbeResults : r.site_name \in AuthSites}

\* the clock of the requests
AuthTick ==
  /\ now < MaxAuthTime
  /\ now' = now + 1
  /\ lastOp' = "tick"
  /\ response' = 0
  /\ body' = << >>
  /\ UNCHANGED <<batchSize, monitored_sites, site_status, statusFile, publicDir, pullVars,
                 loopVars, authVars, clientVars, proc>>

AuthNext ==
  \/ AuthTick
  \/ \E username \in Usernames \cup {""} : PostUsers(username)
  \/ \E u \in Usernames : DeactivateUser(u)
  \/ \E key \in Keys \cup {NoKey} : \E results \in Requests(AuthResults, 1) :
       PostStatus(key, results)
  \/ \E key \in Keys \cup {NoKey} : GetApiStatus(key)
  \/ \E key \in Keys \cup {NoKey} : GetSitesBatch(key)
  \/ \E key \in Keys \cup {NoKey} : \E sites \in SeqsUpTo(AuthSites, 1) :
       PostSites(key, sites)

\* the server as its constructor leaves it (this.batchSize = 5)
AuthInit == Init /\ batchSize = DefaultBatchSize

AuthSpec == AuthInit /\ [][AuthNext]_vars

\* ------------------------------------------------------------ the probe
\* checkSite(siteName, urlConfig) of the client and of the standalone monitor (the two
\* are the same text), applied to every outcome of the HTTP GET.

Urls == {"https://www.gov.gr", "https://www.gsis.gr"}

\* a value of this.sites: the URL itself, or an object { url, maxRedirects }
UrlConfigs == [kind : {"string", "object"}, url : Urls]

\* status codes a server can answer with
StatusCodes == {200, 204, 304, 399, 400, 404, 500, 599, 600, 999}

\* error.code of a failed exchange; "" when the error carries no code
ErrorCodes ==
  {"ERR_FR_TOO_MANY_REDIRECTS", "ECONNREFUSED", "ECONNABORTED", "ENOTFOUND",
   "ETIMEDOUT", "ECONNRESET", ""}

\* error.message of a failed exchange; "" when the error carries no text
Messages == {"socket hang up", ""}

\* null where a string is expected
NoText == "null"

\* what the GET comes to: a response with a status code, or no response
Outcomes ==
  [kind : {"response"}, status : StatusCodes]
    \cup [kind : {"error"}, code : ErrorCodes, message : Messages]

\* seconds from startTime to the end of the exchange
Elapsed == {0, 1}

\* validateStatus: function (status) { return status >= 200 && status < 600; }
validateStatus(status) == status >= 200 /\ status < 600

\* this.axiosInstance.get(url, ...): resolves with the response when validateStatus
\* accepts its status, rejects with "Request failed with status code N" (the response
\* attached) when it does not, rejects with the transport error when there is none
axiosGet(o) ==
  IF o.kind = "response"
    THEN IF validateStatus(o.status)
           THEN [ok |-> TRUE, status |-> o.status]
           ELSE [ok |-> FALSE,
                 code |-> IF o.status >= 400 /\ o.status < 500 THEN "ERR_BAD_REQUEST"
                          ELSE IF o.status >= 500 /\ o.status < 600
                                 THEN "ERR_BAD_RESPONSE" ELSE "",
                 message |-> "Request failed with status code " \o ToString(o.status),
                 response |-> o.status]
    ELSE [ok |-> FALSE, code |-> o.code, message |-> o.message, response |-> NULL]

\* faulty variant: formatError without its ECONNABORTED line
formatError_NoTimeout(error) ==
  IF error.code = "ERR_FR_TOO_MANY_REDIRECTS" THEN "Too many redirects"
  ELSE IF error.code = "ECONNREFUSED" THEN "Connection refused"
  ELSE IF error.code = "ENOTFOUND" THEN "DNS lookup failed"
  ELSE IF error.message # "" THEN error.message ELSE "Unknown error"

\* formatError(error)
formatError(error) ==
  IF error.code = "ERR_FR_TOO_MANY_REDIRECTS" THEN "Too many redirects"
  ELSE IF error.code = "ECONNREFUSED" THEN "Connection refused"
  ELSE IF error.code = "ECONNABORTED" THEN "Connection timed out"
  ELSE IF error.code = "ENOTFOUND" THEN "DNS lookup failed"
  ELSE IF error.message # "" THEN error.message ELSE "Unknown error"

\* faulty variant: checkSite without its catch block
checkSite_NoCatch(siteName, urlConfig, o, start, elapsed) ==
  LET got == axiosGet(o)
  IN  IF got.ok
        THEN [status |-> "fulfilled",
              value |-> [site_name |-> siteName, url |-> urlConfig.url,
                         status_code |-> got.status, response_time |-> elapsed,
                         is_up |-> IF got.status >= 200 /\ got.status < 400 THEN 1 ELSE 0,
                         error_message |-> NoText, timestamp |-> start + elapsed]]
        ELSE [status |-> "rejected", reason |-> got.message]

\* checkSite(siteName, urlConfig): the promise it returns, the GET coming to o, started
\* at start and over after elapsed
checkSite(siteName, urlConfig, o, start, elapsed) ==
  LET got == axiosGet(o)
  IN  IF got.ok
        THEN [status |-> "fulfilled",
              value |-> [site_name |-> siteName, url |-> urlConfig.url,
                         status_code |-> got.status, response_time |-> elapsed,
                         is_up |-> IF got.status >= 200 /\ got.status < 400 THEN 1 ELSE 0,
                         error_message |-> NoText, timestamp |-> start + elapsed]]
        ELSE [status |-> "fulfilled",
              value |-> [site_name |-> siteName, url |-> urlConfig.url,
                         status_code |-> got.response, response_time |-> NULL,
                         is_up |-> 0,
                         error_message |-> formatError(got),
                         timestamp |-> start + elapsed]]

CheckSite(siteName, urlConfig, o, start, elapsed) ==
  /\ probe' = [called |-> TRUE, siteName |-> siteName, urlConfig |-> urlConfig,
               outcome |-> o,
               promise |-> checkSite(siteName, urlConfig, o, start, elapsed)]
  /\ UNCHANGED <<dbVars, httpVars, pullVars, loopVars, authVars, thisSites, cyc, proc>>

ProbeNext ==
  \E siteName \in Names, urlConfig \in UrlConfigs, o \in Outcomes,
     start \in Timestamps, elapsed \in Elapsed :
    CheckSite(siteName, urlConfig, o, start, elapsed)

ProbeSpec == Init /\ [][ProbeNext]_vars

\* ------------------------------------------------------------ the client's cycle
\* startScheduledMonitoring, runMonitoringCycle, checkAllSites and sendResultsToServer
\* of the client, one step per await; the server answers the POST in the same step.

\* what this.sites can hold
\* the first entries of the shipped list, one more than a batch holds
FirstSites == <<"gov.gr", "gsis", "efka", "ktimalogio", "et.gr", "oaed">>

SiteLists == {<< >>, <<"gov.gr">>, <<"gov.gr", "gsis">>}

SiteUrl(s) ==
  CASE s = "gov.gr" -> "https://www.gov.gr"
    [] s = "gsis" -> "https://www.gsis.gr"
    [] s = "efka" -> "https://www.efka.gov.gr"
    [] s = "ktimalogio" -> "https://www.ktimatologio.gr"
    [] s = "et.gr" -> "https://www.et.gr"
    [] s = "oaed" -> "https://www.dypa.gov.gr"

\* a promise that has not settled
Pending == [status |-> "pending"]

\* the outcomes of the GETs of a cycle: an answer 200, a connection that is reset
ClientOutcomes ==
  {[kind |-> "response", status |-> 200],
   [kind |-> "error", code |-> "ECONNRESET", message |-> "socket hang up"]}

\* how the promise of the probe of s can settle; Promise.allSettled and the filter
\* on "fulfilled" also provide for a promise that rejects
Settlements(s) ==
  {checkSite(s, [kind |-> "string", url |-> SiteUrl(s)], o, 1, 0) : o \in ClientOutcomes}
    \cup {[status |-> "rejected"]}

\* faulty variant: sites.slice(i), every remaining site at once
Batch_Rest(i) == SubSeq(thisSites, i, Len(thisSites))

\* sites.slice(i, i + batchSize)
Batch(i) == SubSeq(thisSites, i, Min2(i + ClientBatchSize - 1, Len(thisSites)))

\* faulty variant: await Promise.all(promises), which throws when a promise rejects
awaitBatch_All(batch, inflight) ==
  LET promises == [k \in 1..Len(batch) |-> inflight[batch[k]]]
      thrown == \E k \in 1..Len(batch) : promises[k].status = "rejected"
  IN  [thrown |-> thrown,
       values |-> IF thrown THEN << >>
                  ELSE [k \in 1..Len(batch) |-> promises[k].value]]

\* await Promise.allSettled(promises), then the filter on "fulfilled" and the map to
\* value: validResults
awaitBatch(batch, inflight) ==
  LET promises == [k \in 1..Len(batch) |-> inflight[batch[k]]]
      valid == SelectSeq(promises, LAMBDA q : q.status = "fulfilled")
  IN  [thrown |-> FALSE, values |-> [k \in 1..Len(valid) |-> valid[k].value]]

\* the body of the POST as saveResults reads it; every value of a result of
\* checkSite can be bound
ToRequest(results) ==
  [k \in 1..Len(results) |->
     [site_name |-> results[k].site_name, is_up |-> results[k].is_up,
      timestamp |-> results[k].timestamp, bindable |-> TRUE]]

\* faulty variant: runMonitoringCycle without its try / catch
EndOfCycle_NoCatch(threw) ==
  [outcome |-> IF threw THEN "failed" ELSE "completed", escaped |-> threw]

\* runMonitoringCycle returns: try { ... } catch (error) { console.error(...) }
EndOfCycle(threw) ==
  [outcome |-> IF threw THEN "failed" ELSE "completed", escaped |-> FALSE]

\* runMonitoringCycle() is called
BeginCycle == [NoCycle EXCEPT !.pc = "loop", !.i = 1, !.outcome = "running"]

\* startScheduledMonitoring: await this.runMonitoringCycle() (the initial run)
ClientStart ==
  /\ loop = "off"
  /\ loop' = "initial"
  /\ cyc' = BeginCycle
  /\ UNCHANGED <<ctime, nextFire, cycles, dbVars, httpVars, pullVars, authVars, probe,
                 thisSites, proc>>

\* the setInterval callback; the 13 sites of the client make 3 batches, so a cycle is
\* over (3 probe timeouts and the timeout of the POST) before the next minute
ClientTimerFires ==
  /\ loop = "armed"
  /\ cyc.pc = "idle"
  /\ cyc' = BeginCycle
  /\ UNCHANGED <<loopVars, dbVars, httpVars, pullVars, authVars, probe, thisSites, proc>>

\* for (let i = 0; i < sites.length; i += batchSize): the probes of the next batch
\* are started, or the loop is over and checkAllSites returns allResults
LoopStep ==
  /\ cyc.pc = "loop"
  /\ IF cyc.i <= Len(thisSites)
       THEN cyc' = [cyc EXCEPT !.pc = "await",
                               !.inflight = [s \in Range(Batch(cyc.i)) |-> Pending]]
       ELSE cyc' = [cyc EXCEPT !.pc = "send"]
  /\ UNCHANGED <<loopVars, dbVars, httpVars, pullVars, authVars, probe, thisSites, proc>>

\* the promise of the probe of s settles as p
ProbeSettles(s, p) ==
  /\ cyc.pc = "await"
  /\ s \in DOMAIN cyc.inflight
  /\ cyc.inflight[s].status = "pending"
  /\ cyc' = [cyc EXCEPT !.inflight[s] = p]
  /\ UNCHANGED <<loopVars, dbVars, httpVars, pullVars, authVars, probe, thisSites, proc>>

\* faulty variant: await Promise.race(promises), the loop goes on when one promise
\* of the batch has settled
AllSettled_Race ==
  /\ cyc.pc = "await"
  /\ \E s \in DOMAIN cyc.inflight : cyc.inflight[s].status # "pending"
  /\ LET r == awaitBatch(Batch(cyc.i), cyc.inflight)
     IN  IF r.thrown
           THEN cyc' = [cyc EXCEPT !.pc = "end", !.threw = TRUE, !.inflight = << >>]
           ELSE cyc' = [cyc EXCEPT !.pc = "loop", !.inflight = << >>,
                                   !.allResults = @ \o r.values,
                                   !.i = @ + ClientBatchSize]
  /\ UNCHANGED <<loopVars, dbVars, httpVars, pullVars, authVars, probe, thisSites, proc>>

\* every promise of the batch has settled: allResults.push(...validResults)
AllSettled ==
  /\ cyc.pc = "await"
  /\ \A s \in DOMAIN cyc.inflight : cyc.inflight[s].status # "pending"
  /\ LET r == awaitBatch(Batch(cyc.i), cyc.inflight)
     IN  IF r.thrown
           THEN cyc' = [cyc EXCEPT !.pc = "end", !.threw = TRUE, !.inflight = << >>]
           ELSE cyc' = [cyc EXCEPT !.pc = "loop", !.inflight = << >>,
                                   !.allResults = @ \o r.values,
                                   !.i = @ + ClientBatchSize]
  /\ UNCHANGED <<loopVars, dbVars, httpVars, pullVars, authVars, probe, thisSites, proc>>

\* await this.sendResultsToServer(results): the POST reaches the server, which runs
\* saveResults and answers, or it does not; any answer but 2xx, and no answer, throw
SendResults ==
  /\ cyc.pc = "send"
  /\ \/ /\ SaveResults(ToRequest(cyc.allResults))
        /\ cyc' = [cyc EXCEPT !.pc = "end", !.posted = TRUE, !.threw = (response' # 200)]
        /\ UNCHANGED <<authVars, probe, thisSites, proc>>
     \/ /\ cyc' = [cyc EXCEPT !.pc = "end", !.posted = TRUE, !.threw = TRUE]
        /\ UNCHANGED <<loopVars, dbVars, httpVars, pullVars, authVars, probe, thisSites, proc>>

\* an exception is thrown inside the try block of runMonitoringCycle
CycleThrows ==
  /\ cyc.pc = "loop"
  /\ cyc' = [cyc EXCEPT !.pc = "end", !.threw = TRUE]
  /\ UNCHANGED <<loopVars, dbVars, httpVars, pullVars, authVars, probe, thisSites, proc>>

\* runMonitoringCycle returns; after the initial run setInterval arms the timer; an
\* exception that escaped would reject startScheduledMonitoring or the callback
CycleEnds ==
  /\ cyc.pc = "end"
  /\ LET e == EndOfCycle(cyc.threw)
     IN  /\ cyc' = [cyc EXCEPT !.pc = "idle", !.outcome = e.outcome]
         /\ loop' = IF e.escaped THEN "dead"
                    ELSE IF loop = "initial" THEN "armed" ELSE loop
  /\ UNCHANGED <<ctime, nextFire, cycles, dbVars, httpVars, pullVars, authVars, probe,
                 thisSites, proc>>

ClientNext ==
  \/ ClientStart
  \/ ClientTimerFires
  \/ LoopStep
  \/ \E s \in Names : \E p \in Settlements(s) : ProbeSettles(s, p)
  \/ AllSettled
  \/ SendResults
  \/ CycleThrows
  \/ CycleEnds

ClientInit == InitExceptSites /\ thisSites \in SiteLists

ClientSpec == ClientInit /\ [][ClientNext]_vars

\* the cycle over a list longer than one batch; the promises settle as checkSite
\* settles them, fulfilled with an up or a down result
BatchNext ==
  \/ ClientStart
  \/ ClientTimerFires
  \/ LoopStep
  \/ \E s \in Range(FirstSites) :
       \E p \in {q \in Settlements(s) : q.status = "fulfilled"} : ProbeSettles(s, p)
  \/ AllSettled
  \/ SendResults
  \/ CycleThrows
  \/ CycleEnds

BatchInit == InitExceptSites /\ thisSites \in SiteLists \cup {FirstSites}

BatchSpec == BatchInit /\ [][BatchNext]_vars

\* the event loop runs a timer that is due and resumes a function whose await is over
ClientFairSpec ==
  ClientSpec /\ WF_vars(ClientTimerFires) /\ WF_vars(CycleEnds)

\* ------------------------------------------------------------ shutdown of the monitor
\* main() of the standalone monitor: the monitor is constructed (its database opened),
\* startScheduledMonitoring is awaited, and only then are the handlers of SIGINT and
\* SIGTERM registered.

Signals == {"SIGINT", "SIGTERM"}

Alive == proc.state = "running"

\* await monitor.startScheduledMonitoring(1)
MonitorStart == Alive /\ StartScheduledMonitoring /\ UNCHANGED proc

\* a batch settles; when this ends the initial run, startScheduledMonitoring returns
\* and main goes on to process.on("SIGINT", ...) and process.on("SIGTERM", ...)
MonitorBatchSettles(i) ==
  /\ Alive
  /\ BatchSettles(i)
  /\ proc' = [proc EXCEPT !.handlers = @ \/ (loop = "initial" /\ loop' = "armed")]

MonitorTimerFires == Alive /\ TimerFires /\ UNCHANGED proc

MonitorTick == Alive /\ ClientTick /\ UNCHANGED proc

\* monitor.shutdown(): this.db.close()
shutdown(pr) == [pr EXCEPT !.dbOpen = FALSE]

\* sig is delivered once monitoring has started: the registered handler runs
\* monitor.shutdown() and process.exit(0); with no handler registered the signal
\* ends the process there and then
Signal(sig) ==
  /\ Alive
  /\ loop # "off"
  /\ proc' = IF proc.handlers
               THEN [shutdown(proc) EXCEPT !.state = "exited", !.signal = sig]
               ELSE [proc EXCEPT !.state = "exited", !.signal = sig]
  /\ UNCHANGED <<dbVars, httpVars, pullVars, loopVars, authVars, clientVars>>

ShutdownNext ==
  \/ MonitorStart
  \/ \E i \in 1..Len(cycles) : MonitorBatchSettles(i)
  \/ MonitorTimerFires
  \/ MonitorTick
  \/ \E sig \in Signals : Signal(sig)

ShutdownSpec == Init /\ [][ShutdownNext]_vars

Spec == Init /\ [][Next]_vars

\* ------------------------------------------------------------ properties
\* the latest recorded result of site s is a down result
LatestDown(s) ==
  \E i \in 1..Len(site_status) :
    /\ site_status[i].site_name = s
    /\ site_status[i].is_up = 0
    /\ \A j \in (i + 1)..Len(site_status) : site_status[j].site_name # s

\* s is a Tier-1 site: active, latest result down, last checked more than Tdown ago
Tier1(s) ==
  /\ s \in DOMAIN monitored_sites
  /\ monitored_sites[s].is_active = 1
  /\ LatestDown(s)
  /\ monitored_sites[s].last_checked # NULL
  /\ monitored_sites[s].last_checked < now - Tdown

\* the interval that must pass after a stamp before s is eligible again
EligibilityInterval(s) == IF LatestDown(s) THEN Tdown ELSE Tup

\* C1: whenever a pull hands out its batch (the stamping step of getNextSiteBatch),
\* no site of the batch was handed out by another pull less than its eligibility
\* interval ago, whatever the interleaving of the steps of the two pulls.
C1_NoDoubleHandOut ==
  [][\A p \in Procs :
       (pc[p] = "selected" /\ pc'[p] = "idle") =>
         \A s \in Range(sel[p]) :
           \/ monitored_sites[s].last_checked = NULL
           \/ monitored_sites[s].last_checked + EligibilityInterval(s) < now]_vars

\* C2: two calls of getNextSiteBatch, the second right after the first with no time
\* passing and no other operation in between, return disjoint sets of sites.
C2_SuccessiveBatchesDisjoint ==
  [][(lastOp = "batch" /\ lastOp' = "batch") =>
       Range(body) \cap Range(body') = {}]_vars

\* a batch was returned while another active site carries a stamp of the same instant
C2_Witness ==
  /\ lastOp = "batch"
  /\ body # << >>
  /\ \E s \in DOMAIN monitored_sites \ Range(body) :
       /\ monitored_sites[s].is_active = 1
       /\ monitored_sites[s].last_checked = now

\* C3: a batch returned by getNextSiteBatch holds at most batchSize sites (5 by
\* default), holds no site twice and holds no site whose is_active is 0.
C3_BatchBounded ==
  lastOp = "batch" =>
    /\ Len(body) <= batchSize
    /\ batchSize <= DefaultBatchSize
    /\ Injective(body)
    /\ \A i \in 1..Len(body) :
         /\ body[i] \in DOMAIN monitored_sites
         /\ monitored_sites[body[i]].is_active = 1

\* a full batch was returned while the registry holds an inactive site
C3_Witness ==
  /\ lastOp = "batch"
  /\ Len(body) = batchSize
  /\ \E s \in DOMAIN monitored_sites : monitored_sites[s].is_active = 0

\* C4: in every batch returned by getNextSiteBatch every Tier-1 site comes before
\* every other site, and a site that is not Tier-1 is returned only when every
\* Tier-1 site is in the batch; for every batch size.
C4_Tier1First ==
  [][lastOp' = "batch" =>
       /\ \A i, j \in 1..Len(body') :
            (Tier1(body'[j]) /\ ~Tier1(body'[i])) => j < i
       /\ (\E i \in 1..Len(body') : ~Tier1(body'[i])) =>
            \A s \in DOMAIN monitored_sites : Tier1(s) => s \in Range(body')]_vars

\* the batch [A, B]: A's latest result is down, B's is not
C4_Witness ==
  /\ lastOp = "batch"
  /\ Len(body) = 2
  /\ LatestDown(body[1])
  /\ ~LatestDown(body[2])

\* C5: every active site that was never checked, or was last checked more than Tup
\* ago, is returned by getNextSiteBatch when the batch has room for every site of the
\* registry, whether its latest result is down, up or absent.
C5_RoutineEligible ==
  [][lastOp' = "batch" =>
       \A s \in DOMAIN monitored_sites :
         ( /\ monitored_sites[s].is_active = 1
           /\ \/ monitored_sites[s].last_checked = NULL
              \/ monitored_sites[s].last_checked < now - Tup
           /\ Cardinality(DOMAIN monitored_sites) <= batchSize )
         => s \in Range(body')]_vars

\* C6: saveResults is all-or-nothing: if the insert of one result of the batch fails,
\* site_status is as before the call; otherwise it is as before followed by exactly
\* one new row per result of the batch.
C6_AllOrNothing ==
  [][lastOp' = "save" =>
       IF body'.rejected # 0
         THEN site_status' = site_status
         ELSE /\ Len(site_status') = Len(site_status) + body'.count
              /\ SubSeq(site_status', 1, Len(site_status)) = site_status]_vars

\* a batch whose second insert failed after its first had run
C6_Witness ==
  /\ lastOp = "save"
  /\ body.count = 2
  /\ body.rejected = 2
  /\ response = 500

\* C7: getLatestStatus returns exactly one row per site_name that has a recorded
\* result, and that row carries the maximum timestamp recorded for the site_name,
\* the later inserted of two rows with that timestamp.
C7_LatestIsMaxTimestamp ==
  lastOp = "status" =>
    /\ \A i \in 1..Len(site_status) :
         Cardinality({r \in body : r.site_name = site_status[i].site_name}) = 1
    /\ \A r \in body : \A j \in 1..Len(site_status) :
         site_status[j].site_name = r.site_name =>
           \/ site_status[j].timestamp < r.timestamp
           \/ (site_status[j].timestamp = r.timestamp /\ j <= r.id)

\* C8: last_checked of a site never decreases (NULL being the least value), a new
\* site starts with NULL, and last_checked changes in exactly the steps in which
\* getNextSiteBatch returns the site.
C8_LastCheckedMonotone ==
  [][/\ \A s \in DOMAIN monitored_sites :
          /\ s \in DOMAIN monitored_sites'
          /\ LastCheckedLE(monitored_sites[s].last_checked,
                           monitored_sites'[s].last_checked)
          /\ (monitored_sites'[s].last_checked # monitored_sites[s].last_checked)
               <=> (lastOp' = "batch" /\ s \in Range(body'))
     /\ \A s \in DOMAIN monitored_sites' \ DOMAIN monitored_sites :
          monitored_sites'[s].last_checked = NULL]_vars

\* a site with a recorded result was returned again, later than the first minute
C8_Witness ==
  /\ lastOp = "batch"
  /\ now >= 2
  /\ \E i \in 1..Len(body) :
       /\ monitored_sites[body[i]].last_checked = now
       /\ \E j \in 1..Len(site_status) : site_status[j].site_name = body[i]

\* C9: at most one runMonitoringCycle of the process is running at any time.
C9_SingleCycle == Len(cycles) <= 1

\* C10: addSites succeeds (POST /api/sites answers 201) whether or not a site_name
\* exists already, leaves every existing row as it is, and returns exactly the sites
\* it inserted.
C10_AddSitesIdempotent ==
  [][lastOp' = "add" =>
       /\ response' = 201
       /\ \A s \in DOMAIN monitored_sites :
            s \in DOMAIN monitored_sites' /\ monitored_sites'[s] = monitored_sites[s]
       /\ Range(body') = DOMAIN monitored_sites' \ DOMAIN monitored_sites]_vars

\* C11: every row that POST /api/status commits to site_status carries a site_name
\* that is in monitored_sites when the row is recorded.
C11_ResultsReferenceRegistry ==
  [][lastOp' = "save" =>
       \A i \in (Len(site_status) + 1)..Len(site_status') :
         site_status'[i].site_name \in DOMAIN monitored_sites]_vars

\* the key is missing, is the key of no principal, or is the key of an inactive one
BadKey(key, us) ==
  \/ key = NoKey
  \/ \A u \in DOMAIN us : us[u].api_key # key
  \/ \E u \in DOMAIN us : us[u].api_key = key /\ us[u].is_active = 0

\* C12: a request to an authenticated endpoint (POST /api/status, GET /api/status,
\* GET /api/sites/batch, POST /api/sites) whose API key is missing, unknown or that of
\* an inactive principal is answered 401 by authenticateApiKey, and site_status,
\* monitored_sites (last_checked included), users (last_active included) and the
\* status file are as before the request.
C12_UnauthenticatedRejected ==
  [][\A op \in Endpoints :
       (lastOp' \in {op, Rejected[op]} /\ BadKey(apiKey', users)) =>
         /\ lastOp' = Rejected[op]
         /\ response' = 401
         /\ site_status' = site_status
         /\ monitored_sites' = monitored_sites
         /\ users' = users
         /\ statusFile' = statusFile]_vars

\* POST /api/status was answered 401 for the key of a principal that had used it
\* before being deactivated, while a result and a site are stored
C12_Witness ==
  /\ lastOp = Rejected["save"]
  /\ response = 401
  /\ \E u \in DOMAIN users :
       /\ users[u].api_key = apiKey
       /\ users[u].is_active = 0
       /\ users[u].last_active # NULL
       /\ users[u].last_active < now
  /\ site_status # << >>
  /\ DOMAIN monitored_sites # {}

\* the fields of a result of checkSite
ResultFields ==
  {"site_name", "url", "status_code", "response_time", "is_up", "error_message",
   "timestamp"}

C14_StatusClassified ==
  (probe.called /\ probe.outcome.kind = "response") =>
    LET v == probe.promise.value
        code == probe.outcome.status
    IN  /\ v.is_up = 1 <=> (code >= 200 /\ code < 400)
        /\ ~(code >= 200 /\ code < 400) =>
             /\ v.is_up = 0
             /\ v.error_message = NoText
             /\ v.status_code = code

\* the message formatError owes to a transport error, as the claim words it
ClassifiedText(o) ==
  IF o.code = "ERR_FR_TOO_MANY_REDIRECTS" THEN "Too many redirects"
  ELSE IF o.code = "ECONNREFUSED" THEN "Connection refused"
  ELSE IF o.code = "ECONNABORTED" THEN "Connection timed out"
  ELSE IF o.code = "ENOTFOUND" THEN "DNS lookup failed"
  ELSE o.message

\* C15 (as stated): for every exchange that fails to complete checkSite returns
\* is_up = 0, status_code null, response_time null and as error_message the text
\* of the error code (one of the four) or else the raw text of the transport error.
C15_TransportFailureClassified ==
  (probe.called /\ probe.outcome.kind = "error") =>
    LET v == probe.promise.value
    IN  /\ v.is_up = 0
        /\ v.status_code = NULL
        /\ v.response_time = NULL
        /\ v.error_message = ClassifiedText(probe.outcome)

\* C15 (amended): as stated, except that a transport error with none of the four
\* codes and with no text of its own yields the error_message "Unknown error".
C15_TransportFailureClassifiedOrUnknown ==
  (probe.called /\ probe.outcome.kind = "error") =>
    LET v == probe.promise.value
    IN  /\ v.is_up = 0
        /\ v.status_code = NULL
        /\ v.response_time = NULL
        /\ v.error_message =
             IF ClassifiedText(probe.outcome) = ""
               THEN "Unknown error" ELSE ClassifiedText(probe.outcome)

\* a probe that timed out (ECONNABORTED) was reported as "Connection timed out"
C15_Witness ==
  /\ probe.called
  /\ probe.outcome.kind = "error"
  /\ probe.outcome.code = "ECONNABORTED"
  /\ probe.promise.value.error_message = "Connection timed out"
  /\ probe.promise.value.status_code = NULL

\* the rows saveResults appends for the results of a cycle
RowsOf(results) ==
  [k \in 1..Len(results) |->
     [site_name |-> results[k].site_name, is_up |-> results[k].is_up,
      timestamp |-> results[k].timestamp]]

\* C16: when a batch of checkAllSites is over, every probe of the batch has settled,
\* and the result of every probe that fulfilled is in allResults whatever became of
\* the other probes of the batch (a down result, a transport error, a rejected
\* promise); the results recorded for the cycle are allResults.
C16_ProbeFailuresIsolated ==
  [][/\ (cyc.pc = "await" /\ cyc'.pc # "await") =>
          \A s \in DOMAIN cyc.inflight :
            /\ cyc.inflight[s].status # "pending"
            /\ cyc.inflight[s].status = "fulfilled" =>
                 \E k \in 1..Len(cyc'.allResults) :
                   cyc'.allResults[k] = cyc.inflight[s].value
     /\ (cyc.pc = "send" /\ cyc'.pc = "end" /\ ~cyc'.threw) =>
          site_status' = site_status \o RowsOf(cyc.allResults)]_vars

\* of the two probes of a batch one rejected, and the result of the other was recorded
C16_Witness ==
  /\ Len(thisSites) = 2
  /\ cyc.pc = "end"
  /\ cyc.posted
  /\ ~cyc.threw
  /\ Len(cyc.allResults) = 1
  /\ site_status = RowsOf(cyc.allResults)

\* C17: a monitoring cycle with no site to check is a no-op: it starts no probe,
\* makes no POST /api/status, and leaves site_status and the status file as they are.
C17_EmptyCycleNoOp ==
  [][Len(thisSites) = 0 =>
       /\ DOMAIN cyc'.inflight = {}
       /\ ~cyc'.posted
       /\ site_status' = site_status
       /\ statusFile' = statusFile]_vars

\* C18: a cycle that fails (an exception in the probe phase, the POST failing or
\* answered with an error) does not end the monitoring loop: the exception does not
\* escape runMonitoringCycle, and after a failed cycle the timer starts a next one.
C18_LoopSurvivesFailure ==
  /\ [](loop # "dead")
  /\ (cyc.outcome = "failed") ~> (cyc.outcome = "running")

\* a cycle that posted its results has failed, and the timer is armed
C18_Witness ==
  /\ cyc.pc = "idle"
  /\ cyc.outcome = "failed"
  /\ cyc.posted
  /\ loop = "armed"

\* C19: when SIGINT or SIGTERM is delivered after monitoring has started, the initial
\* cycle included, the database connection is closed before the process exits.
C19_GracefulShutdown ==
  (proc.state = "exited" /\ proc.signal \in Signals) => ~proc.dbOpen

\* C20: over saveResults, getNextSiteBatch, addSites and getLatestStatus a row of
\* site_status, once committed, is never changed or removed, and a saveResults that
\* succeeds adds exactly one row per result.
C20_HistoryAppendOnly ==
  [][/\ Len(site_status') >= Len(site_status)
     /\ SubSeq(site_status', 1, Len(site_status)) = site_status
     /\ (lastOp' = "save" /\ response' = 200) =>
          Len(site_status') = Len(site_status) + body'.count
     /\ lastOp' # "save" => site_status' = site_status]_vars

\* a saveResults succeeded on top of an earlier row, after a batch had been handed out
C20_Witness ==
  /\ lastOp = "save"
  /\ response = 200
  /\ body.count = 1
  /\ Len(site_status) = 2
  /\ \E n \in DOMAIN monitored_sites : monitored_sites[n].last_checked # NULL

\* C21: the sites a tick of the client probes are the batch of one pull from the
\* server's scheduler: whenever the probe of a site is started, and whenever a result
\* of a site is recorded, getNextSiteBatch has handed the site out before (the site is
\* in monitored_sites and its last_checked is stamped).
C21_ClientProbesPulledBatch ==
  [][/\ (cyc.pc = "loop" /\ cyc'.pc = "await") =>
          \A s \in DOMAIN cyc'.inflight :
            /\ s \in DOMAIN monitored_sites
            /\ monitored_sites[s].last_checked # NULL
     /\ (cyc.pc = "send" /\ cyc'.pc = "end" /\ ~cyc'.threw) =>
          \A k \in 1..Len(cyc.allResults) :
            /\ cyc.allResults[k].site_name \in DOMAIN monitored_sites
            /\ monitored_sites[cyc.allResults[k].site_name].last_checked # NULL]_vars

\* C22: saveResults changes no field of monitored_sites; getNextSiteBatch changes
\* last_checked of the sites it returns and nothing else: no last_checked of another
\* site, no is_active flag, no row of the registry added or removed, no row of
\* site_status.
C22_RegistryFrame ==
  [][/\ lastOp' = "save" => monitored_sites' = monitored_sites
     /\ lastOp' = "batch" =>
          /\ site_status' = site_status
          /\ DOMAIN monitored_sites' = DOMAIN monitored_sites
          /\ \A s \in DOMAIN monitored_sites :
               /\ monitored_sites'[s].is_active = monitored_sites[s].is_active
               /\ s \notin Range(body') =>
                    monitored_sites'[s].last_checked = monitored_sites[s].last_checked]_vars

\* a batch of one site was returned while the registry holds another site, stamped
\* earlier, and a result is stored
C22_Witness ==
  /\ lastOp = "batch"
  /\ Len(body) = 1
  /\ site_status # << >>
  /\ \E s \in DOMAIN monitored_sites \ Range(body) :
       /\ monitored_sites[s].last_checked # NULL
       /\ monitored_sites[s].last_checked < now

\* the probes of the cycle that have not settled
InFlight(c) == {s \in DOMAIN c.inflight : c.inflight[s].status = "pending"}

\* C23: within one cycle at most batchSize (5) probes are in flight at any moment,
\* and checkAllSites starts the probes of a batch only when no probe of the batch
\* before it is still in flight.
C23_BoundedConcurrency ==
  /\ [](Cardinality(InFlight(cyc)) <= ClientBatchSize)
  /\ [][(InFlight(cyc') \ InFlight(cyc) # {}) => InFlight(cyc) = {}]_vars

\* the one probe of the second batch is in flight, the five of the first have settled
C23_Witness ==
  /\ Len(thisSites) > ClientBatchSize
  /\ cyc.pc = "await"
  /\ cyc.i = 1 + ClientBatchSize
  /\ InFlight(cyc) # {}

\* C24: the results of a batch are collected (allResults.push in the client, the
\* batch transaction at the same place in the standalone monitor) only in a step
\* that starts with every probe of the batch settled, and the POST that records the
\* results of the cycle starts with no probe in flight; every collected result is
\* the value of a settled probe of that batch.
C24_RecordAfterSettled ==
  [][ /\ (cyc'.allResults # cyc.allResults /\ cyc'.allResults # << >>) =>
           /\ cyc.pc = "await"
           /\ InFlight(cyc) = {}
           /\ \A k \in (Len(cyc.allResults) + 1)..Len(cyc'.allResults) :
                 \E s \in Range(Batch(cyc.i)) :
                   /\ cyc.inflight[s].status = "fulfilled"
                   /\ cyc.inflight[s].value = cyc'.allResults[k]
      /\ (cyc.pc = "send" /\ cyc'.pc = "end") =>
           /\ InFlight(cyc) = {}
           /\ Len(cyc.allResults) <= Len(thisSites) ]_vars

\* the results of a second batch were collected and the POST is about to start
C24_Witness ==
  /\ cyc.pc = "send"
  /\ Len(thisSites) > ClientBatchSize
  /\ Len(cyc.allResults) = Len(thisSites)
  /\ \E k \in 1..Len(cyc.allResults) : cyc.allResults[k].is_up = 0

\* s is due: active and in the first tier, or active, its latest result not down,
\* and never checked or last checked more than Tup ago
Due(s) ==
  \/ Tier1(s)
  \/ /\ s \in DOMAIN monitored_sites
     /\ monitored_sites[s].is_active = 1
     /\ ~LatestDown(s)
     /\ \/ monitored_sites[s].last_checked = NULL
        \/ monitored_sites[s].last_checked < now - Tup

\* the site checked at a was checked no later than the one checked at b, a site that
\* was never checked counting as the oldest
NotNewer(a, b) == a = NULL \/ (b # NULL /\ a <= b)

\* C25: in a batch the sites of one tier come in ascending order of the last_checked
\* they had before the call, never-checked sites first; a due site that the batch
\* size left out was last checked no earlier than every returned site of its tier.
C25_OldestFirstWithinTier ==
  [][lastOp' = "batch" =>
       /\ \A i, j \in 1..Len(body') :
            (i < j /\ Tier1(body'[i]) = Tier1(body'[j])) =>
              NotNewer(monitored_sites[body'[i]].last_checked,
                       monitored_sites[body'[j]].last_checked)
       /\ \A x \in DOMAIN monitored_sites \ Range(body') :
            Due(x) =>
              \A i \in 1..Len(body') :
                Tier1(body'[i]) = Tier1(x) =>
                  NotNewer(monitored_sites[body'[i]].last_checked,
                           monitored_sites[x].last_checked)]_vars

\* a batch of one was returned and a due site of the same tier, checked before, was
\* left out
C25_Witness ==
  /\ lastOp = "batch"
  /\ batchSize = 1
  /\ Len(body) = 1
  /\ ~LatestDown(body[1])
  /\ \E x \in DOMAIN monitored_sites \ Range(body) :
       /\ monitored_sites[x].is_active = 1
       /\ ~LatestDown(x)
       /\ monitored_sites[x].last_checked # NULL
       /\ monitored_sites[x].last_checked < now - Tup

\* C26: the count query and the batch query agree: the count is the number of due
\* sites, the batch holds min(batchSize, count) sites and so is empty exactly when
\* the count is 0; an empty batch is answered 200 and stamps nothing.
C26_CountAgreesWithBatch ==
  [][lastOp' = "batch" =>
       LET due == Cardinality({s \in DOMAIN monitored_sites : Due(s)})
       IN  /\ checkNeedsSitesStmt(monitored_sites, site_status, now) = due
           /\ Len(body') = Min2(batchSize, due)
           /\ (body' = << >>) <=> (due = 0)
           /\ response' = 200
           /\ body' = << >> => monitored_sites' = monitored_sites]_vars

\* an empty batch was answered while the registry holds an active site whose latest
\* result is down
C26_Witness ==
  /\ lastOp = "batch"
  /\ response = 200
  /\ body = << >>
  /\ \E s \in DOMAIN monitored_sites :
       monitored_sites[s].is_active = 1 /\ LatestDown(s)

\* C27: the stamp is a lease that only time ends: a site stamped no more than its
\* interval ago (Tdown when its latest result is down, Tup otherwise) is neither
\* counted as due nor returned; an active site stamped more than its interval ago is
\* counted as due, and returned when the batch has room for the whole registry,
\* whether or not a result was recorded for it; right after a batch that holds every
\* active site the count of due sites is 0.
C27_StampIsLease ==
  [][lastOp' = "batch" =>
       /\ \A s \in DOMAIN monitored_sites :
            ( /\ monitored_sites[s].last_checked # NULL
              /\ now <= monitored_sites[s].last_checked + EligibilityInterval(s) )
            => /\ s \notin Range(body')
               /\ ~CountWhere(monitored_sites, site_status, now, s)
       /\ \A s \in DOMAIN monitored_sites :
            ( /\ monitored_sites[s].is_active = 1
              /\ monitored_sites[s].last_checked # NULL
              /\ monitored_sites[s].last_checked + EligibilityInterval(s) < now )
            => /\ CountWhere(monitored_sites, site_status, now, s)
               /\ Cardinality(DOMAIN monitored_sites) <= batchSize
                    => s \in Range(body')
       /\ (\A s \in DOMAIN monitored_sites :
             monitored_sites[s].is_active = 1 => s \in Range(body'))
            => checkNeedsSitesStmt(monitored_sites', site_status', now') = 0]_vars

\* after a batch, the lease of a site for which no result was ever recorded has run
\* out while the lease of another site is still in force
C27_Witness ==
  /\ lastOp = "batch"
  /\ \E s \in DOMAIN monitored_sites :
       /\ monitored_sites[s].is_active = 1
       /\ monitored_sites[s].last_checked # NULL
       /\ monitored_sites[s].last_checked + EligibilityInterval(s) < now
       /\ \A i \in 1..Len(site_status) : site_status[i].site_name # s
       /\ \E t \in DOMAIN monitored_sites \ {s} :
            /\ monitored_sites[t].is_active = 1
            /\ monitored_sites[t].last_checked # NULL
            /\ monitored_sites[t].last_checked + EligibilityInterval(t) >= now

\* C28: POST /api/status answers 200 only if every row of the request was committed,
\* and whenever it answers 500 (the insert step or the refresh of the snapshot
\* raised) site_status holds no row of the request: it is as before the call.
C28_ErrorMeansNothingSaved ==
  [][lastOp' = "save" =>
       /\ response' \in {200, 500}
       /\ response' = 200 =>
            /\ Len(site_status') = Len(site_status) + body'.count
            /\ SubSeq(site_status', 1, Len(site_status)) = site_status
       /\ response' = 500 => site_status' = site_status]_vars

\* C29: in every state the names that the batch and count queries treat as down (the
\* DownSites rows) are exactly the names whose getLatestStatus row has is_up false,
\* and that row is the result with the maximum timestamp recorded for the name, the
\* later inserted of two results with that timestamp.
C29_TierAgreesWithLatest ==
  LET latest == getLatestStatus(site_status)
  IN  /\ DownSites(site_status) = {r.site_name : r \in {q \in latest : ~q.is_up}}
      /\ \A r \in latest : \A j \in 1..Len(site_status) :
           site_status[j].site_name = r.site_name =>
             \/ site_status[j].timestamp < r.timestamp
             \/ (site_status[j].timestamp = r.timestamp /\ j <= r.id)

\* the part of C29 that holds: the two queries agree on which names are down, and a
\* name is down exactly when the result inserted last for it is down
C29_TierAgreesWithLastInserted ==
  /\ DownSites(site_status) =
       {r.site_name : r \in {q \in getLatestStatus(site_status) : ~q.is_up}}
  /\ \A s \in Names : s \in DownSites(site_status) <=> LatestDown(s)

\* C30: when time passes and batches keep being pulled, every site that stays
\* registered and active is returned by a batch again and again, whatever results
\* are pushed in between.
C30_NoStarvation ==
  \A s \in Names :
    <>[](s \in DOMAIN monitored_sites /\ monitored_sites[s].is_active = 1)
      => []<>(lastOp = "batch" /\ s \in Range(body))

====
